---- MODULE Spec2Model ----
(***************************************************************************)
(* Model of src/compliance_checker.py (KSI_Engine): the S3 compliance      *)
(* checker run as an AWS Lambda handler.                                   *)
(*                                                                         *)
(* The collaborators (S3, the Vanguard HTTP endpoint, SQS) are the         *)
(* environment: every call to one of them draws its response, or the       *)
(* exception it raises, from a small set.  Exceptions are distinguished    *)
(* by the classes the code's except clauses distinguish:                   *)
(*   "ClientError"       botocore.exceptions.ClientError (with its code),  *)
(*   "RequestException"  requests.exceptions.RequestException,             *)
(*   "Exception"         any other subclass of Exception.                  *)
(* Timestamps (datetime.utcnow) are left out of the payloads.              *)
(***************************************************************************)
EXTENDS Integers, Sequences, FiniteSets, TLC

\* ---------------------------------------------------------------- bounds
\* Largest number of buckets list_buckets returns.
MaxBuckets == 3
\* Number of invocations of lambda_handler on one warm container.
MaxInvocations == 2

\* ------------------------------------------------------------- constants
\* CONFIG.remediation_path, the default of AppConfig.__init__.
REMEDIATION_PATH ==
    "https://github.com/wrestcody/Praetorium_Nexus/blob/main/remediation_playbooks/s3_public_access_fix.tf"
ENGINE_ID == "KSI_Engine"
CONTROL_ID == "NIST-800-53-CM-6"

\* The keys all(...) looks up in check_public_access_block.
PAB_KEYS == {"BlockPublicAcls", "IgnorePublicAcls", "BlockPublicPolicy", "RestrictPublicBuckets"}

\* ------------------------------------------------- collaborator responses
\* Bucket names are unique within S3 and the code never compares them, so one
\* order is enumerated for each set of names: the order of BucketPool.
BucketPool == <<"alpha", "beta", "delta", "gamma">>

RECURSIVE Pick(_, _)
\* The names of BucketPool at the positions in I, from position i on.
Pick(i, I) ==
    IF i > Len(BucketPool) THEN <<>>
    ELSE (IF i \in I THEN <<BucketPool[i]>> ELSE <<>>) \o Pick(i + 1, I)

\* The lists of at most n bucket names list_buckets may return.
BucketLists(n) ==
    { Pick(1, I) : I \in { J \in SUBSET (1..Len(BucketPool)) : Cardinality(J) <= n } }

\* Error codes a ClientError of S3 may carry.
ErrorCodes ==
    {"NoSuchPublicAccessBlockConfiguration",
     "ServerSideEncryptionConfigurationNotFoundError",
     "AccessDenied"}

\* Error.Message texts a ClientError may carry: S3's text for AccessDenied and
\* the text of a stubbed error.
ErrorMessages == {"Access Denied", "simulated"}

\* str(e) of a ClientError: botocore's message template over the error code,
\* the operation name and the error message.
ClientErrorStr(code, operation, message) ==
    "An error occurred (" \o code \o ") when calling the " \o operation
        \o " operation: " \o message

\* dict.get(key, default) on a dict modelled as a function.
Get(d, key, default) == IF key \in DOMAIN d THEN d[key] ELSE default

\* A PublicAccessBlockConfiguration: each key true, false or missing.
PABConfigs == UNION { [K -> BOOLEAN] : K \in SUBSET PAB_KEYS }

NoConfig == [k \in {} |-> TRUE]

\* s3.list_buckets(): a response with or without the key 'Buckets', or a raise.
ListResponses ==
    { [kind |-> "ok", code |-> "", has_buckets |-> TRUE, Buckets |-> bs] :
        bs \in BucketLists(MaxBuckets) }
    \cup { [kind |-> "ok", code |-> "", has_buckets |-> FALSE, Buckets |-> <<>>] }
    \cup { [kind |-> "ClientError", code |-> "AccessDenied", has_buckets |-> FALSE, Buckets |-> <<>>],
           [kind |-> "Exception", code |-> "", has_buckets |-> FALSE, Buckets |-> <<>>] }

\* s3.get_public_access_block(Bucket=...)
PABResponses ==
    { [kind |-> "ok", code |-> "", has_config |-> TRUE, config |-> c] : c \in PABConfigs }
    \cup { [kind |-> "ok", code |-> "", has_config |-> FALSE, config |-> NoConfig] }
    \cup { [kind |-> "ClientError", code |-> c, has_config |-> FALSE, config |-> NoConfig] :
             c \in ErrorCodes }
    \cup { [kind |-> "Exception", code |-> "", has_config |-> FALSE, config |-> NoConfig] }

\* s3.get_bucket_encryption(Bucket=...): Rules is a list of rule algorithms.
RuleLists == { <<>>, <<"AES256">>, <<"aws:kms">>, <<"AES256", "aws:kms">> }

EncResponses ==
    { [kind |-> "ok", code |-> "", has_ssec |-> TRUE, has_rules |-> TRUE, Rules |-> r] :
        r \in RuleLists }
    \cup { [kind |-> "ok", code |-> "", has_ssec |-> h, has_rules |-> FALSE, Rules |-> <<>>] :
             h \in BOOLEAN }
    \cup { [kind |-> "ClientError", code |-> c, has_ssec |-> FALSE, has_rules |-> FALSE, Rules |-> <<>>] :
             c \in ErrorCodes }
    \cup { [kind |-> "Exception", code |-> "", has_ssec |-> FALSE, has_rules |-> FALSE, Rules |-> <<>>] }

\* s3.get_bucket_versioning(Bucket=...)
VerResponses ==
    { [kind |-> "ok", code |-> "", has_status |-> TRUE, Status |-> s] :
        s \in {"Enabled", "Suspended"} }
    \cup { [kind |-> "ok", code |-> "", has_status |-> FALSE, Status |-> ""] }
    \cup { [kind |-> "ClientError", code |-> "AccessDenied", has_status |-> FALSE, Status |-> ""],
           [kind |-> "Exception", code |-> "", has_status |-> FALSE, Status |-> ""] }

\* requests.post(...) followed by raise_for_status(): returns, or raises.
PostOutcomes == {"ok", "RequestException", "Exception"}

\* sqs.send_message(...): returns, or raises.
SendMessageOutcomes == {"ok", "ClientError", "Exception"}

\* send_cce_to_vanguard: what it lets out to its caller ("" when it returns).
send_cce_to_vanguard(outcome) ==
    IF outcome \in {"ok", "RequestException"} THEN "" ELSE outcome

\* trigger_remediation: what it lets out to its caller ("" when it returns).
trigger_remediation(outcome) ==
    IF outcome \in {"ok", "ClientError"} THEN "" ELSE outcome

\* ------------------------------------------------------------ the checks
Finding(id, st, det) == [check_id |-> id, status |-> st, details |-> det]

Returned(f) == [raised |-> "", finding |-> f]
Raised(e) == [raised |-> e, finding |-> Finding("", "", "")]

\* Mutant of check_public_access_block: config.get(key, True), a missing flag
\* counts as set.
check_public_access_block_MissingIsTrue(resp) ==
    IF resp.kind = "ok" THEN
        IF ~resp.has_config THEN Raised("Exception")
        ELSE
            LET is_compliant == \A key \in PAB_KEYS : Get(resp.config, key, TRUE)
            IN Returned(Finding("S3.1_Public_Access_Blocked",
                                IF is_compliant THEN "PASS" ELSE "FAIL",
                                IF is_compliant THEN "Public access block is enabled."
                                ELSE "Public access block is not fully enabled."))
    ELSE IF resp.kind = "ClientError" THEN
        IF resp.code = "NoSuchPublicAccessBlockConfiguration"
        THEN Returned(Finding("S3.1_Public_Access_Blocked", "FAIL",
                              "Public access block configuration is missing."))
        ELSE Raised("ClientError")
    ELSE Raised("Exception")

\* check_public_access_block on the response of get_public_access_block.
check_public_access_block(resp) ==
    IF resp.kind = "ok" THEN
        IF ~resp.has_config THEN Raised("Exception")   \* KeyError
        ELSE
            LET is_compliant == \A key \in PAB_KEYS : Get(resp.config, key, FALSE)
            IN Returned(Finding("S3.1_Public_Access_Blocked",
                                IF is_compliant THEN "PASS" ELSE "FAIL",
                                IF is_compliant THEN "Public access block is enabled."
                                ELSE "Public access block is not fully enabled."))
    ELSE IF resp.kind = "ClientError" THEN
        IF resp.code = "NoSuchPublicAccessBlockConfiguration"
        THEN Returned(Finding("S3.1_Public_Access_Blocked", "FAIL",
                              "Public access block configuration is missing."))
        ELSE Raised("ClientError")
    ELSE Raised("Exception")

\* check_default_encryption on the response of get_bucket_encryption.
check_default_encryption(resp) ==
    IF resp.kind = "ok" THEN
        LET is_compliant == resp.has_ssec /\ resp.has_rules /\ Len(resp.Rules) > 0
        IN Returned(Finding("S3.5_Server_Side_Encryption",
                            IF is_compliant THEN "PASS" ELSE "FAIL",
                            IF is_compliant THEN "Default encryption (AES256 or KMS) is enabled."
                            ELSE "Default encryption is not enabled."))
    ELSE IF resp.kind = "ClientError" THEN
        IF resp.code = "ServerSideEncryptionConfigurationNotFoundError"
        THEN Returned(Finding("S3.5_Server_Side_Encryption", "FAIL",
                              "Default encryption configuration is missing."))
        ELSE Raised("ClientError")
    ELSE Raised("Exception")

\* Mutant of check_bucket_versioning: only 'Suspended' is non-compliant.
check_bucket_versioning_NotSuspended(resp) ==
    IF resp.kind = "ok" THEN
        LET is_compliant == ~(resp.has_status /\ resp.Status = "Suspended")
        IN Returned(Finding("S3.6_Bucket_Versioning",
                            IF is_compliant THEN "PASS" ELSE "FAIL",
                            IF is_compliant THEN "Bucket versioning is enabled."
                            ELSE "Bucket versioning is not enabled."))
    ELSE IF resp.kind = "ClientError" THEN Raised("ClientError")
    ELSE Raised("Exception")

\* check_bucket_versioning on the response of get_bucket_versioning.
check_bucket_versioning(resp) ==
    IF resp.kind = "ok" THEN
        LET is_compliant == resp.has_status /\ resp.Status = "Enabled"
        IN Returned(Finding("S3.6_Bucket_Versioning",
                            IF is_compliant THEN "PASS" ELSE "FAIL",
                            IF is_compliant THEN "Bucket versioning is enabled."
                            ELSE "Bucket versioning is not enabled."))
    ELSE IF resp.kind = "ClientError" THEN Raised("ClientError")
    ELSE Raised("Exception")

\* ---------------------------------------------------------- aggregation
\* Mutant of OverallStatus: any() where the code has all().
OverallStatus_AnyPass(fs) ==
    IF \E i \in 1..Len(fs) : fs[i].status = "PASS" THEN "PASS" ELSE "FAIL"

\* process_bucket, line 145.
OverallStatus(fs) ==
    IF \A i \in 1..Len(fs) : fs[i].status = "PASS" THEN "PASS" ELSE "FAIL"

\* bucket_arn = f"arn:aws:s3:::{bucket_name}"
BucketArn(name) == "arn:aws:s3:::" \o name

\* Mutant of create_cce_payload: only the failing findings are reported.
create_cce_payload_OnlyFailures(arn, fs, overall) ==
    [engine_id |-> ENGINE_ID,
     target_id |-> arn,
     control_id |-> CONTROL_ID,
     status |-> overall,
     findings |-> SelectSeq(fs, LAMBDA f : f.status = "FAIL"),
     remediation_path |-> REMEDIATION_PATH]

\* create_cce_payload (timestamp left out).
create_cce_payload(arn, fs, overall) ==
    [engine_id |-> ENGINE_ID,
     target_id |-> arn,
     control_id |-> CONTROL_ID,
     status |-> overall,
     findings |-> fs,
     remediation_path |-> REMEDIATION_PATH]

NoPayload == create_cce_payload("", <<>>, "")

\* message_body of trigger_remediation (timestamp left out).
RemediationMessage(arn) ==
    [target_id |-> arn, remediation_path |-> REMEDIATION_PATH]

\* The dict lambda_handler returns; body is the object json.dumps serialises,
\* and e is str(e) of the exception caught.
ErrorResult(e) == [statusCode |-> 500, body |-> [error |-> e]]
SummaryResult(n) ==
    [statusCode |-> 200,
     body |-> [message |-> "Successfully processed " \o ToString(n) \o " buckets."]]
NoResult == [statusCode |-> 0, body |-> [none |-> ""]]

\* A configuration snapshot: what the three configuration calls answer for a
\* bucket for as long as its configuration does not change.
Snapshots == [pab : PABResponses, enc : EncResponses, ver : VerResponses]

\* The configuration is not fixed: every call draws its own answer.
NoSnapshot == [pab |-> [kind |-> "any"], enc |-> [kind |-> "any"], ver |-> [kind |-> "any"]]

\* ------------------------------------------------------------------ state
VARIABLES
    pc,                \* where the handler is
    invocation,        \* number of the current invocation of lambda_handler
    buckets,           \* the names list_buckets returned
    idx,               \* number of buckets the for loop has finished
    processed_buckets, \* lambda_handler's counter
    result,            \* what lambda_handler returned
    handler_error,     \* the exception list_buckets raised in lambda_handler
    bucket_name,       \* process_bucket's frame: its argument
    findings,          \* process_bucket's frame: findings collected so far
    overall_status,    \* process_bucket's frame
    cce_payload,       \* process_bucket's frame
    error,             \* process_bucket's frame: the exception its except caught
    retval,            \* process_bucket's frame: the value it is returning
    returned,          \* the values process_bucket returned, in call order
    calls,             \* the calls made to the collaborators, in order
    snapshot           \* the configuration S3 holds for the buckets, when it is fixed

vars == <<pc, invocation, buckets, idx, processed_buckets, result, handler_error, bucket_name,
          findings, overall_status, cce_payload, error, retval, returned, calls, snapshot>>

frame == <<bucket_name, findings, overall_status, cce_payload, error, retval>>

Call(op, target, status) == [op |-> op, target |-> target, status |-> status]

\* No process_bucket frame is live.
NoFrame ==
    /\ bucket_name' = ""
    /\ findings' = <<>>
    /\ overall_status' = ""
    /\ cce_payload' = NoPayload
    /\ error' = ""
    /\ retval' = FALSE

\* lambda_handler is entered (lines 160-161); no frame of process_bucket yet.
InitHandler ==
    /\ pc = "init"
    /\ invocation = 1
    /\ buckets = <<>>
    /\ idx = 0
    /\ processed_buckets = 0
    /\ result = NoResult
    /\ handler_error = ""
    /\ bucket_name = ""
    /\ findings = <<>>
    /\ overall_status = ""
    /\ cce_payload = NoPayload
    /\ error = ""
    /\ retval = FALSE
    /\ returned = <<>>
    /\ calls = <<>>

Init ==
    /\ InitHandler
    /\ snapshot = NoSnapshot

\* process_bucket reaches "return True" (line 150).
ReturnTrue ==
    /\ retval' = TRUE
    /\ error' = ""
    /\ pc' = "ret"

\* Mutant of CatchInProcessBucket: the exception is not caught and leaves
\* lambda_handler.
CatchInProcessBucket_Propagates(e) ==
    /\ error' = e
    /\ retval' = FALSE
    /\ pc' = "crashed"

\* Mutant of CatchInProcessBucket: the exception reaches the except clause of
\* lambda_handler, which ends the invocation.
CatchInProcessBucket_Fatal(e) ==
    /\ error' = e
    /\ retval' = FALSE
    /\ pc' = "fatal"

\* process_bucket's except Exception (lines 151-153): log and return False.
CatchInProcessBucket(e) ==
    /\ error' = e
    /\ retval' = FALSE
    /\ pc' = "ret"

\* lambda_handler, lines 160-163 and 167-169: list_buckets answered resp.
ListBucketsWith(resp) ==
    /\ calls' = Append(calls, Call("list_buckets", "", ""))
    /\ \/ /\ resp.kind = "ok"
          /\ buckets' = IF resp.has_buckets THEN resp.Buckets ELSE <<>>
          /\ pc' = "loop"
          /\ UNCHANGED <<result, handler_error>>
       \/ /\ resp.kind = "ClientError"
          /\ handler_error' = resp.kind
          /\ \E message \in ErrorMessages :
                result' = ErrorResult(ClientErrorStr(resp.code, "ListBuckets", message))
          /\ pc' = "fatal"
          /\ UNCHANGED buckets
       \/ /\ resp.kind = "Exception"
          /\ handler_error' = resp.kind
          /\ pc' = "crashed"
          /\ UNCHANGED <<buckets, result>>
    /\ UNCHANGED <<invocation, idx, processed_buckets, frame, returned, snapshot>>

\* lambda_handler, lines 160-163 and 167-169: list the buckets.
ListBuckets ==
    /\ pc = "init"
    /\ \E resp \in ListResponses : ListBucketsWith(resp)

\* lambda_handler lines 164-165, process_bucket line 138: call process_bucket
\* on the next bucket.
EnterProcessBucket ==
    /\ pc = "loop"
    /\ idx < Len(buckets)
    /\ bucket_name' = buckets[idx + 1]
    /\ pc' = "pab"
    /\ UNCHANGED <<invocation, buckets, idx, processed_buckets, result, handler_error, findings,
                   overall_status, cce_payload, error, retval, returned, calls, snapshot>>

\* Mutant of RunCheck: a check that raises is skipped and the next one runs.
RunCheck_SkipFailedCheck(op, r, next) ==
    /\ calls' = Append(calls, Call(op, bucket_name, ""))
    /\ findings' = IF r.raised # "" THEN findings ELSE Append(findings, r.finding)
    /\ pc' = next
    /\ UNCHANGED <<error, retval>>
    /\ UNCHANGED <<invocation, buckets, idx, processed_buckets, result, handler_error,
                   bucket_name, overall_status, cce_payload, returned, snapshot>>

\* Mutant of RunCheck: fail-fast, a FAIL finding ends the evaluation and the
\* evidence is built from the findings so far.
RunCheck_FailFast(op, r, next) ==
    /\ calls' = Append(calls, Call(op, bucket_name, ""))
    /\ IF r.raised # ""
       THEN /\ CatchInProcessBucket(r.raised)
            /\ UNCHANGED findings
       ELSE /\ findings' = Append(findings, r.finding)
            /\ pc' = IF r.finding.status = "FAIL" THEN "emit" ELSE next
            /\ UNCHANGED <<error, retval>>
    /\ UNCHANGED <<invocation, buckets, idx, processed_buckets, result, handler_error,
                   bucket_name, overall_status, cce_payload, returned, snapshot>>

\* One of the three checks of process_bucket, lines 140-144, once the call op
\* to S3 was made and the check came to r: the finding is appended, or the
\* exception is caught at line 151.
RunCheck(op, r, next) ==
    /\ calls' = Append(calls, Call(op, bucket_name, ""))
    /\ IF r.raised # ""
       THEN /\ CatchInProcessBucket(r.raised)
            /\ UNCHANGED findings
       ELSE /\ findings' = Append(findings, r.finding)
            /\ pc' = next
            /\ UNCHANGED <<error, retval>>
    /\ UNCHANGED <<invocation, buckets, idx, processed_buckets, result, handler_error,
                   bucket_name, overall_status, cce_payload, returned, snapshot>>

CheckPublicAccessBlock ==
    /\ pc = "pab"
    /\ \E resp \in PABResponses :
        RunCheck("get_public_access_block", check_public_access_block(resp), "enc")

CheckDefaultEncryption ==
    /\ pc = "enc"
    /\ \E resp \in EncResponses :
        RunCheck("get_bucket_encryption", check_default_encryption(resp), "ver")

CheckBucketVersioning ==
    /\ pc = "ver"
    /\ \E resp \in VerResponses :
        RunCheck("get_bucket_versioning", check_bucket_versioning(resp), "emit")

\* Mutant of EmitEvidence: the payload is built but never posted.
EmitEvidence_NoPost ==
    /\ pc = "emit"
    /\ LET overall == OverallStatus(findings) IN
       /\ overall_status' = overall
       /\ cce_payload' = create_cce_payload(BucketArn(bucket_name), findings, overall)
       /\ IF overall = "FAIL"
          THEN /\ pc' = "remediate"
               /\ UNCHANGED <<error, retval>>
          ELSE ReturnTrue
    /\ UNCHANGED <<invocation, buckets, idx, processed_buckets, result, handler_error,
                   bucket_name, findings, returned, calls, snapshot>>

\* process_bucket lines 145-148 and 150 with send_cce_to_vanguard: aggregate,
\* build the payload, post it, decide on remediation.
EmitEvidence ==
    /\ pc = "emit"
    /\ LET overall == OverallStatus(findings)
           payload == create_cce_payload(BucketArn(bucket_name), findings, overall)
       IN
       /\ overall_status' = overall
       /\ cce_payload' = payload
       /\ calls' = Append(calls, Call("post", payload.target_id, payload.status))
       /\ \E outcome \in PostOutcomes :
           LET e == send_cce_to_vanguard(outcome) IN
           IF e # ""
           THEN CatchInProcessBucket(e)
           ELSE IF overall = "FAIL"
                THEN /\ pc' = "remediate"
                     /\ UNCHANGED <<error, retval>>
                ELSE ReturnTrue
    /\ UNCHANGED <<invocation, buckets, idx, processed_buckets, result, handler_error, bucket_name,
                   findings, returned, snapshot>>

\* process_bucket lines 149-150 with trigger_remediation.
TriggerRemediation ==
    /\ pc = "remediate"
    /\ LET msg == RemediationMessage(BucketArn(bucket_name)) IN
       /\ calls' = Append(calls, Call("send_message", msg.target_id, ""))
       /\ \E outcome \in SendMessageOutcomes :
           LET e == trigger_remediation(outcome) IN
           IF e # "" THEN CatchInProcessBucket(e) ELSE ReturnTrue
    /\ UNCHANGED <<invocation, buckets, idx, processed_buckets, result, handler_error, bucket_name,
                   findings, overall_status, cce_payload, returned, snapshot>>

\* Mutant of ProcessBucketReturn: the counter counts every bucket visited.
ProcessBucketReturn_CountsEvery ==
    /\ pc = "ret"
    /\ returned' = Append(returned, retval)
    /\ processed_buckets' = processed_buckets + 1
    /\ idx' = idx + 1
    /\ pc' = "loop"
    /\ NoFrame
    /\ UNCHANGED <<invocation, buckets, result, handler_error, calls, snapshot>>

\* lambda_handler lines 165-166: process_bucket has returned; count it.
ProcessBucketReturn ==
    /\ pc = "ret"
    /\ returned' = Append(returned, retval)
    /\ processed_buckets' = IF retval THEN processed_buckets + 1 ELSE processed_buckets
    /\ idx' = idx + 1
    /\ pc' = "loop"
    /\ NoFrame
    /\ UNCHANGED <<invocation, buckets, result, handler_error, calls, snapshot>>

\* lambda_handler lines 171-175: the loop is over.
ReturnSummary ==
    /\ pc = "loop"
    /\ idx = Len(buckets)
    /\ result' = SummaryResult(processed_buckets)
    /\ pc' = "done"
    /\ UNCHANGED <<invocation, buckets, idx, processed_buckets, handler_error, frame,
                   returned, calls, snapshot>>

\* The next invocation on the same container: lambda_handler starts again
\* (lines 160-161); only the module globals CONFIG and BOTO3_CLIENTS survive.
Invoke ==
    /\ pc \in {"done", "fatal", "crashed"}
    /\ invocation < MaxInvocations
    /\ invocation' = invocation + 1
    /\ pc' = "init"
    /\ buckets' = <<>>
    /\ idx' = 0
    /\ processed_buckets' = 0
    /\ result' = NoResult
    /\ handler_error' = ""
    /\ NoFrame
    /\ returned' = <<>>
    /\ calls' = <<>>
    /\ UNCHANGED snapshot

Next ==
    \/ ListBuckets
    \/ EnterProcessBucket
    \/ CheckPublicAccessBlock
    \/ CheckDefaultEncryption
    \/ CheckBucketVersioning
    \/ EmitEvidence
    \/ TriggerRemediation
    \/ ProcessBucketReturn
    \/ ReturnSummary
    \/ Invoke

Spec == Init /\ [][Next]_vars

\* ------------------------------------------- the rules on fixed snapshots
\* The same handler run on two buckets that hold the same configuration,
\* which does not change: every configuration call answers from the snapshot.
RuleBuckets == <<"alpha", "beta">>

RuleInit ==
    /\ InitHandler
    /\ snapshot \in Snapshots

RuleListBuckets ==
    /\ pc = "init"
    /\ ListBucketsWith([kind |-> "ok", code |-> "", has_buckets |-> TRUE,
                        Buckets |-> RuleBuckets])

RuleCheckPublicAccessBlock ==
    /\ pc = "pab"
    /\ RunCheck("get_public_access_block", check_public_access_block(snapshot.pab), "enc")

RuleCheckDefaultEncryption ==
    /\ pc = "enc"
    /\ RunCheck("get_bucket_encryption", check_default_encryption(snapshot.enc), "ver")

RuleCheckBucketVersioning ==
    /\ pc = "ver"
    /\ RunCheck("get_bucket_versioning", check_bucket_versioning(snapshot.ver), "emit")

RuleNext ==
    \/ RuleListBuckets
    \/ EnterProcessBucket
    \/ RuleCheckPublicAccessBlock
    \/ RuleCheckDefaultEncryption
    \/ RuleCheckBucketVersioning
    \/ EmitEvidence
    \/ TriggerRemediation
    \/ ProcessBucketReturn
    \/ ReturnSummary
    \/ Invoke

RuleSpec == RuleInit /\ [][RuleNext]_vars

TypeOK ==
    /\ pc \in {"init", "loop", "pab", "enc", "ver", "emit", "remediate", "ret",
               "done", "fatal", "crashed"}
    /\ invocation \in 1..MaxInvocations
    /\ idx \in 0..Len(buckets)
    /\ processed_buckets \in 0..idx
    /\ Len(findings) <= 3

\* ----------------------------------------------------- auxiliary notions
\* The positions of `calls` where op was called on target.
CallsOf(op, target) ==
    { j \in 1..Len(calls) : calls[j].op = op /\ calls[j].target = target }

\* The targets of the calls of op, in call order.
RECURSIVE TargetsOf(_, _)
TargetsOf(op, cs) ==
    IF cs = <<>> THEN <<>>
    ELSE (IF Head(cs).op = op THEN <<Head(cs).target>> ELSE <<>>) \o TargetsOf(op, Tail(cs))

\* The buckets process_bucket was called on, in call order: its first act is
\* always the public-access-block call.
Evaluated == TargetsOf("get_public_access_block", calls)

\* The S3 configuration calls made for bucket b.
ChecksRun(b) ==
    CallsOf("get_public_access_block", b) \cup CallsOf("get_bucket_encryption", b)
        \cup CallsOf("get_bucket_versioning", b)

\* Number of process_bucket calls that returned True.
CountTrue == Cardinality({ i \in 1..Len(returned) : returned[i] })

\* The names of the buckets process_bucket returned False for, in order.
RECURSIVE FailedFrom(_)
FailedFrom(i) ==
    IF i > Len(returned) THEN <<>>
    ELSE (IF returned[i] THEN <<>> ELSE <<buckets[i]>>) \o FailedFrom(i + 1)

FailedToProcess == FailedFrom(1)

Statuses(fs) == [i \in 1..Len(fs) |-> fs[i].status]

FailCount(fs) == Cardinality({ i \in 1..Len(fs) : fs[i].status = "FAIL" })

\* process_bucket is about to return and all three checks returned a finding.
FrameEvaluated == pc = "ret" /\ Len(findings) = 3

\* ------------------------------------------------------------------ claims

\* C1: whenever the three checks of a resource all returned a finding,
\* overall_status is FAIL if and only if at least one finding is FAIL, and PASS
\* otherwise.
C1_OverallFailIffSomeFindingFails ==
    overall_status # "" =>
        /\ Len(findings) = 3
        /\ \A i \in 1..3 : findings[i].status \in {"PASS", "FAIL"}
        /\ overall_status = "FAIL" <=> (\E i \in 1..3 : findings[i].status = "FAIL")
        /\ overall_status = "PASS" <=> (\A i \in 1..3 : findings[i].status = "PASS")

C1_Witness ==
    /\ overall_status = "FAIL"
    /\ Statuses(findings) = <<"PASS", "FAIL", "PASS">>

\* C2 (as stated): when process_bucket returns, trigger_remediation has been
\* called for the resource if and only if its evaluation completed with
\* overall_status FAIL.
C2_RemediationIffOverallFail ==
    pc = "ret" =>
        (CallsOf("send_message", BucketArn(bucket_name)) # {} <=> overall_status = "FAIL")

\* C3 (as stated): per enumerated resource at most one evidence record and at
\* most one remediation request; a resource failing two or three checks yields
\* exactly one evidence record and exactly one remediation request.
C3_ExactlyOneRecordAndRequest ==
    /\ \A i \in 1..Len(buckets) :
        /\ Cardinality(CallsOf("post", BucketArn(buckets[i]))) <= 1
        /\ Cardinality(CallsOf("send_message", BucketArn(buckets[i]))) <= 1
    /\ FrameEvaluated /\ FailCount(findings) >= 2 =>
        /\ Cardinality(CallsOf("post", BucketArn(bucket_name))) = 1
        /\ cce_payload.findings = findings
        /\ Cardinality(CallsOf("send_message", BucketArn(bucket_name))) = 1

\* C4: a processing error on one resource never aborts the run: once
\* enumeration succeeded the handler never ends FATAL or with an escaping
\* exception, the resources are evaluated exactly once each in enumeration
\* order, and at DONE all of them were and the result has status 200 with the
\* number of resources process_bucket returned True for.
C4_ProcessingErrorNeverAborts ==
    /\ pc \in {"fatal", "crashed"} => Evaluated = <<>> /\ handler_error # ""
    /\ pc \notin {"init", "fatal", "crashed"} =>
        Evaluated = SubSeq(buckets, 1, IF pc \in {"loop", "pab", "done"} THEN idx ELSE idx + 1)
    /\ pc = "done" =>
        /\ Evaluated = buckets
        /\ Len(returned) = Len(buckets)
        /\ result = SummaryResult(CountTrue)

C4_Witness ==
    /\ pc = "done"
    /\ Len(buckets) = 3
    /\ returned = <<TRUE, FALSE, TRUE>>
    /\ processed_buckets = 2
    /\ result = SummaryResult(2)
    /\ TargetsOf("post", calls) = <<BucketArn(buckets[1]), BucketArn(buckets[3])>>

\* C5 (as stated): the result of an invocation that reaches DONE reports the
\* count of processed resources and the ordered list of the identifiers of the
\* resources that could not be processed.
C5_ResultReportsFailedToProcess ==
    pc = "done" =>
        /\ result.statusCode = 200
        /\ "failed_to_process" \in DOMAIN result.body
        /\ result.body.failed_to_process = FailedToProcess

\* C6: every error of a configuration call other than the recognised "not
\* configured" signal makes its check raise, and if one of the three checks
\* raises, then for that resource no evidence record and no remediation
\* request is sent, the remaining checks are not run and process_bucket
\* returns False, so the resource is not counted.
C6_CheckErrorSkipsResource ==
    /\ pc = "ret" /\ Len(findings) < 3 =>
        /\ error \in {"ClientError", "Exception"}
        /\ retval = FALSE
        /\ CallsOf("post", BucketArn(bucket_name)) = {}
        /\ CallsOf("send_message", BucketArn(bucket_name)) = {}
        /\ Cardinality(ChecksRun(bucket_name)) = Len(findings) + 1
        /\ calls[Len(calls)].target = bucket_name
    /\ pc \in {"pab", "enc", "ver"} => Cardinality(ChecksRun(bucket_name)) = Len(findings)
    /\ processed_buckets = CountTrue
    /\ \A resp \in PABResponses :
        resp.kind # "ok" /\ resp.code # "NoSuchPublicAccessBlockConfiguration"
            => check_public_access_block(resp).raised # ""
    /\ \A resp \in EncResponses :
        resp.kind # "ok" /\ resp.code # "ServerSideEncryptionConfigurationNotFoundError"
            => check_default_encryption(resp).raised # ""
    /\ \A resp \in VerResponses :
        resp.kind # "ok" => check_bucket_versioning(resp).raised # ""

C6_Witness ==
    /\ pc = "ret"
    /\ Len(findings) = 1
    /\ error = "ClientError"
    /\ calls[Len(calls)] = Call("get_bucket_encryption", bucket_name, "")
    /\ Len(buckets) >= 2

\* C7 (as stated): a failure of the evidence sink or of the remediation sink
\* never propagates out of the sink call: once the three checks returned their
\* findings, the remediation decision is applied and the resource is counted
\* as processed.
C7_SinkFailureNeverPropagates ==
    FrameEvaluated =>
        /\ error = ""
        /\ retval = TRUE
        /\ overall_status = "FAIL" => CallsOf("send_message", BucketArn(bucket_name)) # {}

\* C8 (as stated): if list_buckets fails, with any kind of failure, the
\* invocation ends FATAL with a statusCode 500 result and no resource is
\* evaluated.
C8_EnumerationFailureIsFatal ==
    handler_error # "" =>
        /\ pc = "fatal"
        /\ result.statusCode = 500
        /\ Evaluated = <<>>

\* C9: a remediation request for a resource is sent only after the evidence
\* record of the same resource was built and handed to the evidence sink.
C9_EvidenceBeforeRemediation ==
    /\ \A j \in 1..Len(calls) :
        calls[j].op = "send_message" =>
            \E i \in 1..(j - 1) : calls[i].op = "post" /\ calls[i].target = calls[j].target
    /\ pc = "remediate" =>
        /\ cce_payload = create_cce_payload(BucketArn(bucket_name), findings, "FAIL")
        /\ calls[Len(calls)] = Call("post", BucketArn(bucket_name), "FAIL")

C9_Witness ==
    /\ pc = "ret"
    /\ Len(calls) >= 2
    /\ calls[Len(calls)] = Call("send_message", BucketArn(bucket_name), "")
    /\ calls[Len(calls) - 1] = Call("post", BucketArn(bucket_name), "FAIL")

\* C10 (as stated): a resource whose public-access-block or encryption check
\* met the "not configured" signal, and whose checks all returned a finding,
\* gets an evidence record with its three findings and status FAIL, a
\* remediation request, and is counted as processed.
C10_NotConfiguredIsFailNotError ==
    /\ FrameEvaluated
    /\ \/ findings[1].details = "Public access block configuration is missing."
       \/ findings[2].details = "Default encryption configuration is missing."
    =>
        /\ overall_status = "FAIL"
        /\ cce_payload = create_cce_payload(BucketArn(bucket_name), findings, "FAIL")
        /\ CallsOf("post", BucketArn(bucket_name)) # {}
        /\ CallsOf("send_message", BucketArn(bucket_name)) # {}
        /\ retval = TRUE

\* The check ids of the three rules, in the order process_bucket runs them.
RegistryOrder ==
    <<"S3.1_Public_Access_Blocked", "S3.5_Server_Side_Encryption", "S3.6_Bucket_Versioning">>

CheckIds(fs) == [i \in 1..Len(fs) |-> fs[i].check_id]

\* C11: evaluation is never fail-fast: a FAIL finding does not end the
\* evaluation (fewer than three findings at return only after an error), and
\* the findings of every evidence record are exactly three, in registry order,
\* after all three configuration calls were made.
C11_AllRulesEvaluatedInRegistryOrder ==
    /\ pc \in {"emit", "remediate"} \/ overall_status # "" =>
        /\ CheckIds(findings) = RegistryOrder
        /\ Cardinality(ChecksRun(bucket_name)) = 3
    /\ overall_status # "" => CheckIds(cce_payload.findings) = RegistryOrder
    /\ pc = "ret" /\ error = "" => Len(findings) = 3
    /\ pc \in {"enc", "ver"} => CheckIds(findings) = SubSeq(RegistryOrder, 1, Len(findings))

C11_Witness ==
    /\ pc = "ret"
    /\ Statuses(cce_payload.findings) = <<"FAIL", "PASS", "FAIL">>
    /\ CheckIds(cce_payload.findings) = RegistryOrder
    /\ CallsOf("post", BucketArn(bucket_name)) # {}

\* C12 (as stated): the remediation_path of a remediation request is looked up
\* by the failing check category, so the public-access playbook is referenced
\* only for a resource whose public-access check failed.
C12_RemediationPathKeyedByFailingCheck ==
    /\ pc = "ret"
    /\ CallsOf("send_message", BucketArn(bucket_name)) # {}
    /\ RemediationMessage(BucketArn(bucket_name)).remediation_path
         = "https://github.com/wrestcody/Praetorium_Nexus/blob/main/remediation_playbooks/s3_public_access_fix.tf"
    => findings[1].status = "FAIL"

\* C13: on a returned configuration the public-access-block rule gives PASS if
\* and only if each of the four flags is present and true; a flag that is
\* false or missing gives a FAIL finding, for every combination of the flags.
C13_PublicAccessPassIffAllFourFlagsTrue ==
    LET r == snapshot.pab IN
    r.kind = "ok" /\ r.has_config =>
        /\ pc \in {"enc", "ver", "emit", "remediate", "ret"} => Len(findings) >= 1
        /\ Len(findings) >= 1 =>
            /\ findings[1].check_id = "S3.1_Public_Access_Blocked"
            /\ findings[1].status \in {"PASS", "FAIL"}
            /\ findings[1].status = "PASS" <=>
                 \A key \in {"BlockPublicAcls", "IgnorePublicAcls", "BlockPublicPolicy",
                             "RestrictPublicBuckets"} :
                     key \in DOMAIN r.config /\ r.config[key] = TRUE

C13_Witness ==
    /\ Len(findings) >= 1
    /\ findings[1].status = "FAIL"
    /\ snapshot.pab.kind = "ok"
    /\ snapshot.pab.has_config
    /\ DOMAIN snapshot.pab.config = {"BlockPublicAcls", "IgnorePublicAcls", "RestrictPublicBuckets"}
    /\ \A key \in DOMAIN snapshot.pab.config : snapshot.pab.config[key]

\* C14: the versioning rule gives PASS if and only if the reported Status is
\* exactly 'Enabled', 'Suspended' and an absent Status give a FAIL finding and
\* no error; the default-encryption rule gives PASS if and only if the
\* configuration reports a non-empty list of rules.
C14_VersioningAndEncryptionRules ==
    /\ Len(findings) = 3 =>
        /\ findings[3].check_id = "S3.6_Bucket_Versioning"
        /\ findings[3].status = "PASS" <=>
             (snapshot.ver.has_status /\ snapshot.ver.Status = "Enabled")
        /\ findings[3].status = "FAIL" <=>
             (~snapshot.ver.has_status \/ snapshot.ver.Status = "Suspended")
    /\ pc = "ret" /\ Len(findings) = 2 => snapshot.ver.kind # "ok"
    /\ Len(findings) >= 2 /\ snapshot.enc.kind = "ok" =>
        /\ findings[2].check_id = "S3.5_Server_Side_Encryption"
        /\ findings[2].status = "PASS" <=>
             (snapshot.enc.has_ssec /\ snapshot.enc.has_rules /\ snapshot.enc.Rules # <<>>)
        /\ findings[2].status = "FAIL" <=>
             (~snapshot.enc.has_ssec \/ ~snapshot.enc.has_rules \/ snapshot.enc.Rules = <<>>)
    /\ pc = "ret" /\ Len(findings) = 1 => snapshot.enc.kind # "ok"

C14_Witness ==
    /\ Len(findings) = 3
    /\ snapshot.ver.has_status
    /\ snapshot.ver.Status = "Suspended"
    /\ findings[3].status = "FAIL"
    /\ snapshot.enc.Rules = <<"aws:kms">>
    /\ findings[2].status = "PASS"

\* C15: every evidence record handed to the sink is the image of its
\* evaluation: target_id is the ARN of the resource being evaluated, status is
\* the computed overall_status, findings is the evaluator's sequence unchanged
\* and control_id is NIST-800-53-CM-6; the remediation request of the resource
\* carries the same target_id.
C15_EvidenceRecordIsFaithful ==
    /\ overall_status # "" =>
        /\ bucket_name = buckets[idx + 1]
        /\ cce_payload.target_id = "arn:aws:s3:::" \o buckets[idx + 1]
        /\ cce_payload.status = overall_status
        /\ cce_payload.findings = findings
        /\ cce_payload.control_id = "NIST-800-53-CM-6"
        /\ \E j \in 1..Len(calls) :
            /\ calls[j] = Call("post", cce_payload.target_id, cce_payload.status)
            /\ j \in {Len(calls), Len(calls) - 1}
    /\ \A j \in 1..Len(calls) :
        calls[j].op = "send_message" =>
            /\ j > 1
            /\ calls[j - 1].op = "post"
            /\ calls[j - 1].status = "FAIL"
            /\ calls[j].target = calls[j - 1].target

C15_Witness ==
    /\ pc = "ret"
    /\ bucket_name = "beta"
    /\ Statuses(findings) = <<"PASS", "FAIL", "FAIL">>
    /\ cce_payload.findings = findings
    /\ cce_payload.target_id = "arn:aws:s3:::beta"
    /\ calls[Len(calls)] = Call("send_message", "arn:aws:s3:::beta", "")

\* C17 (as stated): every invocation ends in exactly one of DONE (status 200)
\* and FATAL (status 500), whatever errors occur, and no resource is evaluated
\* more than once.
C17_EndsInDoneOrFatal ==
    /\ pc \notin {"init", "loop", "pab", "enc", "ver", "emit", "remediate", "ret"} =>
        \/ pc = "done" /\ result.statusCode = 200
        \/ pc = "fatal" /\ result.statusCode = 500
    /\ \A i \in 1..Len(buckets) :
        Cardinality(CallsOf("get_public_access_block", buckets[i])) <= 1

\* C18: the counter equals the number of process_bucket calls that returned
\* True and never exceeds the number of resources visited; at DONE it is the
\* reported count, and with the number of resources that raised a processing
\* error it adds up to the number of enumerated resources; within an
\* invocation it never decreases.
C18_ProcessedCountIsExact ==
    /\ [](/\ processed_buckets = CountTrue
          /\ Len(returned) = idx
          /\ processed_buckets <= idx
          /\ pc = "done" =>
              /\ result = SummaryResult(CountTrue)
              /\ idx = Len(buckets)
              /\ processed_buckets + Len(FailedToProcess) = Len(buckets))
    /\ [][pc' # "init" => processed_buckets' >= processed_buckets]_vars

C18_Witness ==
    /\ pc = "done"
    /\ Len(buckets) = 3
    /\ returned = <<FALSE, TRUE, FALSE>>
    /\ processed_buckets = 1
    /\ result.body.message = "Successfully processed 1 buckets."

\* C19: FATAL (statusCode 500) is entered only from the enumeration step: an
\* invocation that ends FATAL made no call but list_buckets, so evaluated no
\* resource and sent no evidence record and no remediation request, and once
\* the loop has started the result is never the 500 one.
C19_FatalOnlyFromEnumeration ==
    /\ [](/\ pc = "fatal" =>
              /\ result.statusCode = 500
              /\ calls = <<Call("list_buckets", "", "")>>
              /\ returned = <<>>
          /\ result.statusCode = 500 => pc = "fatal"
          /\ pc \in {"loop", "pab", "enc", "ver", "emit", "remediate", "ret", "done"} =>
              result.statusCode # 500 /\ handler_error = "")
    /\ [][pc' = "fatal" /\ pc # "fatal" => pc = "init"]_vars

C19_Witness ==
    /\ pc = "fatal"
    /\ result = ErrorResult(ClientErrorStr("AccessDenied", "ListBuckets", "Access Denied"))
    /\ Len(calls) = 1
    /\ invocation = 2
====
